---- MODULE Spec2Model ----
(***************************************************************************)
(* A model of fused-channel: the publish/subscribe bus of channel.js       *)
(* (fusedChannel: publish / on / close over a BroadcastChannel or an       *)
(* EventTarget), the animation-frame debounce helper (rafDebounce) and the  *)
(* map adapter built on both (enableBoundsMessaging).                      *)
(*                                                                         *)
(* All channel objects live in one execution context (one window, one     *)
(* event loop).  The host primitives follow the HTML standard:             *)
(*   - BroadcastChannel.postMessage throws InvalidStateError on a closed   *)
(*     object, rethrows DataCloneError from the structured serialization,  *)
(*     and queues one task per OTHER BroadcastChannel object of the same   *)
(*     name, in creation order; the task fires "message" at its            *)
(*     destination unless that destination has been closed meanwhile;      *)
(*   - EventTarget.dispatchEvent runs the listeners registered for the     *)
(*     event's name synchronously, in registration order.                  *)
(***************************************************************************)
EXTENDS Integers, Sequences, FiniteSets

\* ------------------------------------------------------------------ bounds

\* API calls (on / publish / close / unsubscribe) made on the channel objects
\* in one run.
MaxOps == 3
\* Calls of the debounced wrapper in one run.
MaxCalls == 4
\* Animation frames in one run.
MaxFrames == 3
\* Move events of the bound map in one run.
MaxMoves == 3
\* ensure() and close() calls on FusedDuckDB in one run.
MaxDbCalls == 5
\* fetchBytes() calls in one run.
MaxFetches == 4

\* ------------------------------------------------------------------ inputs

\* The channel objects a page constructs: two fusedChannel(name) calls, with
\* the same name or with different names.
Topologies == {<<"bus-a", "bus-a">>, <<"bus-a", "bus-b">>}
\* Published types: an ordinary one, and the one that equals the event name the
\* EventTarget branch uses for its wildcard dispatch.
Types == {"a", "message"}
\* Subscription topics: the published types and the wildcard.
Topics == {"a", "message", "*"}
\* "fn" stands for a payload holding a function: not structured-cloneable.
Payloads == {"p1", "fn"}
Origins == {"udf", "map"}
Handlers == {"h1", "h2"}
\* Handlers that do more than read: "mutator" assigns to the payload of the
\* object it is handed, "thrower" throws.
BehavingHandlers == {"h1", "mutator", "thrower"}
\* What the host's BroadcastChannel.close does: the standard behaviour, or a
\* broken primitive that throws before / after marking the object closed.
TeardownModes == {"ok", "throwsBefore", "throwsAfter"}
\* What `new BroadcastChannel(name)` does in the window: the constructor is
\* missing, works, or throws (as browsers do in an opaque origin).
HostModes == {"absent", "ok", "throws"}
\* The second argument the documentation gives fusedChannel: no origin option,
\* or { origin: "map" }.
FactoryOpts == [origin : {"undefined", "map"}]
\* The enableBoundsMessaging of the sources: channel.js registers the handler
\* itself at once, part_002 registers rafDebounce(handler) once the map has
\* loaded, part_001 registers the handler once the map has loaded and returns
\* nothing.
Revisions == {"channel.js", "part_002", "part_001"}
\* What the handler given to rafDebounce does: returns, throws, or calls the
\* wrapper again from inside its own execution.
FnKinds == {"plain", "throws", "reenters"}
\* The async callers of FusedDuckDB on the page.
Procs == {"p1", "p2"}
\* URLs given to fetchBytes.
Urls == {"u1", "u2"}
\* A call of the debounced wrapper: its `this` and its argument.
WrapperCalls == [this : {"t1", "t2"}, arg : {"x", "y"}]

VARIABLES
    teardown,   \* behaviour of the host's BroadcastChannel.close
    chans,      \* channel objects in creation order: [name, kind, closed]
    listeners,  \* per channel object, the listeners added to its transport t
    tasks,      \* queued BroadcastChannel delivery tasks, FIFO: [dest, msg]
    log,        \* handler invocations in order: [chan, idx, handler, msg]
    pubs,       \* the publish() calls made so far: [chan, afterClose]
    ops,        \* API calls made so far
    last,       \* the most recent API call and how it ended
    closeCalls, \* per channel object, the close() calls made on it
    unsubs,     \* calls made on the value on() returned: [chan, idx, at]
    ticking,    \* rafDebounce: the wrapper's pending flag
    rafQueue,   \* animation-frame callbacks scheduled, with the captured call
    burst,      \* wrapper calls since the last frame fired
    bursts,     \* the bursts of the frames fired so far, one per frame
    execs,      \* executions of the debounced handler: [call, frame]
    fnKind,     \* what the debounced handler does when it runs
    hostBC,     \* the window's BroadcastChannel: "absent", "ok" or "throws"
    opts,       \* per channel object, the second argument fusedChannel was given
    mapLoaded,  \* the bound map's loaded() flag
    mapListeners, \* listeners added to the bound map: [event, fn, once]
    mapView,    \* the bound map's current view (what getBounds reports)
    cleaned,    \* the adapter's returned cleanup function has been called
    emitted,    \* the adapter's publishes: [view, cause, afterCleanup]
    revision,   \* which enableBoundsMessaging is loaded
    dbSlot,     \* FusedDuckDB.__instance: 0 for null, or an instance
    dbInsts,    \* the FusedDuckDB instances built so far: [closing]
    dbProcs,    \* per caller, the await it is suspended on: "idle" if none
    dbReturned, \* what ensure() returned: [proc, inst, closing]
    dbInits,    \* init() runs started by ensure()
    dbCalls,    \* ensure() and close() calls made so far
    bytesCache, \* FusedDuckDB.__bytesCache: the URLs it has bytes for
    fetchProcs, \* per caller of fetchBytes, where it is suspended: [pc, url]
    netRequests, \* the fetch(url) requests issued: [url, proc, cached, inFlight]
    fetchDone   \* how each fetchBytes call ended: [proc, url, how, stored]

chanVars == <<teardown, chans, listeners, tasks, log, pubs, ops, last,
              closeCalls, unsubs>>
rafVars == <<ticking, rafQueue, burst, bursts, execs, fnKind>>
ctorVars == <<hostBC, opts>>
mapVars == <<mapLoaded, mapListeners, mapView, cleaned, emitted, revision>>
dbVars == <<dbSlot, dbInsts, dbProcs, dbReturned, dbInits, dbCalls>>
fetchVars == <<bytesCache, fetchProcs, netRequests, fetchDone>>
vars == <<teardown, chans, listeners, tasks, log, pubs, ops, last,
          closeCalls, unsubs, ticking, rafQueue, burst, bursts, execs, fnKind,
          hostBC, opts, mapLoaded, mapListeners, mapView, cleaned, emitted,
          revision, dbSlot, dbInsts, dbProcs, dbReturned, dbInits, dbCalls,
          bytesCache, fetchProcs, netRequests, fetchDone>>

\* ----------------------------------------------------------------- helpers

ChanIds == 1..Len(chans)

NoCall == [op |-> "none", chan |-> 0, type |-> "-", payload |-> "-",
           origin |-> "-", handler |-> "-", raised |-> "none", ret |-> "-"]

\* StructuredSerialize: plain data is copied value for value, a function throws.
Cloneable(payload) == payload # "fn"

StructuredClone(msg) ==
    [type |-> msg.type, payload |-> msg.payload, origin |-> msg.origin,
     channel |-> msg.channel, ts |-> msg.ts]

\* Date.now(): a logical clock that advances by one tick per publish, so that
\* ts also tells which publish call built an envelope.
Now == Len(pubs) + 1

\* const msg = { type, payload, origin, channel: name, ts: Date.now() }
Envelope(c, type, payload, origin) ==
    [type |-> type, payload |-> payload, origin |-> origin,
     channel |-> chans[c].name, ts |-> Now]

\* const t = ("BroadcastChannel" in window) ? new BroadcastChannel(name)
\*                                          : new EventTarget()
NewTransport(name, bcInWindow) ==
    [name |-> name, kind |-> IF bcInWindow THEN "BC" ELSE "ET", closed |-> FALSE]

\* "BroadcastChannel" in window
BCInWindow == hostBC # "absent"

\* What fusedChannel(name) throws, if anything: the constructor call is not
\* inside any try.
ConstructRaises ==
    IF BCInWindow /\ hostBC = "throws" THEN "NotSupportedError" ELSE "none"

\* fusedChannel(name) called with the name alone.
NoOpts == [origin |-> "undefined"]

\* publish(type, payload = {}, origin = "udf")
DefaultOrigin == "udf"

\* A branch test that asks the window again instead of the object's own t.
IsBCByWindow(c) == hostBC = "ok"

\* t instanceof BroadcastChannel
IsBC(c) == chans[c].kind = "BC"

\* The event name a subscription listens on.
EventName(c, type) ==
    IF IsBC(c) THEN "message"
    ELSE IF type = "*" THEN "message" ELSE type

\* The listener's predicate: type === "*" || data?.type === type
Matches(topic, data) == topic = "*" \/ data.type = topic

\* The object a handler was handed, after the handler ran: handler(e.data) and
\* handler(e.detail) pass the event's own object, not a copy.
Mutated(handler, data) ==
    IF handler = "mutator" THEN [data EXCEPT !.payload = "changed"] ELSE data

\* A dispatch that stops at the first listener that throws.
AbortOnThrow(handler, rest) == IF handler = "thrower" THEN << >> ELSE rest

\* Event dispatch reports a listener's exception and goes on with the
\* remaining listeners.
RestOfDispatch(handler, rest) == rest

\* What dispatchEvent throws because of its listeners: nothing.
DispatchRaises(invoked) == "none"

\* Firing event `name` carrying `data` at channel object c: the listeners added
\* for that event name run in registration order; each invocation is logged
\* with the data as the handler found it.
RECURSIVE FireFrom(_, _, _, _)
FireFrom(c, name, data, i) ==
    IF i > Len(listeners[c]) THEN << >>
    ELSE LET l == listeners[c][i]
         IN  IF l.event = name /\ Matches(l.topic, data)
             THEN <<[chan |-> c, idx |-> i, handler |-> l.handler, msg |-> data]>>
                  \o RestOfDispatch(l.handler,
                         FireFrom(c, name, Mutated(l.handler, data), i + 1))
             ELSE FireFrom(c, name, data, i + 1)

Fire(c, name, data) == FireFrom(c, name, data, 1)

\* The event's data object once the dispatch is over.
AfterFire(c, name, data) ==
    LET invoked == Fire(c, name, data)
    IN  IF invoked = << >> THEN data
        ELSE Mutated(invoked[Len(invoked)].handler, invoked[Len(invoked)].msg)

\* A broadcast that ignores the channel name: every other BroadcastChannel
\* object is a destination.
DestinationsAnyName(c) ==
    SelectSeq([d \in 1..Len(chans) |-> d],
              LAMBDA d : d # c /\ chans[d].kind = "BC")

\* postMessage's destinations: the other BroadcastChannel objects of the same
\* name, oldest first.
RECURSIVE DestinationsFrom(_, _)
DestinationsFrom(c, d) ==
    IF d > Len(chans) THEN << >>
    ELSE IF d # c /\ chans[d].kind = "BC" /\ chans[d].name = chans[c].name
         THEN <<d>> \o DestinationsFrom(c, d + 1)
         ELSE DestinationsFrom(c, d + 1)

Destinations(c) == DestinationsFrom(c, 1)

\* What t.postMessage(msg) throws, if anything.
PostMessageRaises(c, msg) ==
    IF chans[c].closed THEN "InvalidStateError"
    ELSE IF ~Cloneable(msg.payload) THEN "DataCloneError"
    ELSE "none"

\* The tasks t.postMessage(msg) queues.
PostMessageTasks(c, msg) ==
    IF PostMessageRaises(c, msg) # "none" THEN << >>
    ELSE [k \in 1..Len(Destinations(c)) |->
            [dest |-> Destinations(c)[k], msg |-> StructuredClone(msg)]]

\* What publish raises to its caller: nothing is caught around postMessage;
\* dispatchEvent does not throw.
PublishRaises(c, msg) ==
    IF IsBC(c) THEN PostMessageRaises(c, msg)
    ELSE DispatchRaises(Fire(c, msg.type, msg) \o Fire(c, "message", msg))

PublishTasks(c, msg) ==
    IF IsBC(c) THEN PostMessageTasks(c, msg) ELSE << >>

\* The handler invocations that happen before publish returns: the two
\* dispatchEvent calls of the EventTarget branch.
PublishInvokes(c, msg) ==
    IF IsBC(c) THEN << >>
    ELSE Fire(c, msg.type, msg) \o Fire(c, "message", AfterFire(c, msg.type, msg))

\* The listener on() adds to t.
OnListener(c, type, handler) ==
    [event |-> EventName(c, type), topic |-> type, handler |-> handler]

\* on() has no return statement.
OnReturn == "undefined"

\* if (t.close): BroadcastChannel has a close method, EventTarget has none.
HasClose(c) == IsBC(c)

\* What the host's t.close() throws, if anything.
TeardownRaises == IF teardown = "ok" THEN "none" ELSE "Error"

\* The closed flag of t after t.close() ran.
TeardownClosed(c) == IF teardown = "throwsBefore" THEN chans[c].closed ELSE TRUE

\* close(): if (t.close) try { t.close(); } catch (_) {}
\* The old revisions call t.close() outside any try.
CloseRaisesUncaught(c) == IF HasClose(c) THEN TeardownRaises ELSE "none"

\* catch (_) {}
Caught(exc) == "none"

CloseRaises(c) == IF HasClose(c) THEN Caught(TeardownRaises) ELSE "none"

ClosedAfterClose(c) == IF HasClose(c) THEN TeardownClosed(c) ELSE chans[c].closed

\* A close with authority over the name: every channel object of the same
\* name ends up closed.
ChansAfterCloseByName(c) ==
    [d \in 1..Len(chans) |->
        IF chans[d].name = chans[c].name /\ HasClose(d)
        THEN [chans[d] EXCEPT !.closed = TRUE] ELSE chans[d]]

\* close() touches the transport t of its own closure and nothing else.
ChansAfterClose(c) == [chans EXCEPT ![c].closed = ClosedAfterClose(c)]

\* -------------------------------------------------------------------- Init

\* Two fusedChannel(name) calls in a window that has BroadcastChannel (bc) or
\* lacks it.
Constructed(names, bc) == [i \in 1..Len(names) |-> NewTransport(names[i], bc)]

InitChannelWith(cs) ==
    /\ chans = cs
    /\ listeners = [i \in 1..Len(cs) |-> << >>]
    /\ tasks = << >>
    /\ log = << >>
    /\ pubs = << >>
    /\ ops = 0
    /\ last = NoCall
    /\ closeCalls = [i \in 1..Len(cs) |-> 0]
    /\ unsubs = {}
    /\ opts = [i \in 1..Len(cs) |-> NoOpts]

InitChannel ==
    \E names \in Topologies, bc \in BOOLEAN :
        /\ teardown \in (IF bc THEN TeardownModes ELSE {"ok"})
        /\ hostBC = (IF bc THEN "ok" ELSE "absent")
        /\ InitChannelWith(Constructed(names, bc))

InitRaf ==
    /\ ticking = FALSE
    /\ rafQueue = << >>
    /\ burst = << >>
    /\ bursts = << >>
    /\ execs = << >>
    /\ fnKind = "plain"

\* No adapter is bound to a map.
InitNoAdapter ==
    /\ mapLoaded = FALSE
    /\ mapListeners = << >>
    /\ mapView = 0
    /\ cleaned = FALSE
    /\ emitted = << >>
    /\ revision = "channel.js"

\* FusedDuckDB as the class is defined: static __instance = null and
\* static __bytesCache = new Map(), no call made yet.
InitNoDuck ==
    /\ dbSlot = 0
    /\ dbInsts = << >>
    /\ dbProcs = [p \in Procs |-> "idle"]
    /\ dbReturned = << >>
    /\ dbInits = 0
    /\ dbCalls = 0
    /\ bytesCache = {}
    /\ fetchProcs = [p \in Procs |-> [pc |-> "idle", url |-> "-"]]
    /\ netRequests = << >>
    /\ fetchDone = << >>

Init == InitChannel /\ InitRaf /\ InitNoAdapter /\ InitNoDuck

\* ----------------------------------------------------------------- actions

\* ch.on(type, handler)
On(c, type, handler) ==
    /\ listeners' = [listeners EXCEPT ![c] = Append(@, OnListener(c, type, handler))]
    /\ last' = [NoCall EXCEPT !.op = "on", !.chan = c, !.type = type,
                              !.handler = handler, !.ret = OnReturn]
    /\ ops' = ops + 1
    /\ UNCHANGED <<teardown, chans, tasks, log, pubs, closeCalls, unsubs>>
    /\ UNCHANGED <<rafVars, ctorVars, mapVars, dbVars, fetchVars>>

\* A publish call made with `args` arguments, origin being the value the
\* parameter ends up with.
PublishCall(c, type, payload, origin, args) ==
    /\ LET msg == Envelope(c, type, payload, origin)
       IN  /\ tasks' = tasks \o PublishTasks(c, msg)
           /\ log' = log \o PublishInvokes(c, msg)
           /\ last' = [NoCall EXCEPT !.op = "publish", !.chan = c, !.type = type,
                                     !.payload = payload, !.origin = origin,
                                     !.raised = PublishRaises(c, msg)]
    /\ pubs' = Append(pubs, [chan |-> c, afterClose |-> closeCalls[c] > 0,
                             args |-> args])
    /\ ops' = ops + 1
    /\ UNCHANGED <<teardown, chans, listeners, closeCalls, unsubs>>
    /\ UNCHANGED <<rafVars, ctorVars, mapVars, dbVars, fetchVars>>

\* ch.publish(type, payload, origin)
Publish(c, type, payload, origin) == PublishCall(c, type, payload, origin, 3)

\* ch.publish(type, payload): origin takes its default
PublishDefault(c, type, payload) == PublishCall(c, type, payload, DefaultOrigin, 2)

\* The event loop runs the oldest queued BroadcastChannel task: it fires
\* "message" at the destination unless the destination is closed by now.
Deliver ==
    /\ tasks # << >>
    /\ LET tk == Head(tasks)
       IN  log' = log \o (IF chans[tk.dest].closed THEN << >>
                          ELSE Fire(tk.dest, "message", tk.msg))
    /\ tasks' = Tail(tasks)
    /\ UNCHANGED <<teardown, chans, listeners, pubs, ops, last, closeCalls, unsubs>>
    /\ UNCHANGED <<rafVars, ctorVars, mapVars, dbVars, fetchVars>>

\* ch.close()
Close(c) ==
    /\ chans' = ChansAfterClose(c)
    /\ closeCalls' = [closeCalls EXCEPT ![c] = @ + 1]
    /\ last' = [NoCall EXCEPT !.op = "close", !.chan = c, !.raised = CloseRaises(c)]
    /\ ops' = ops + 1
    /\ UNCHANGED <<teardown, listeners, tasks, log, pubs, unsubs>>
    /\ UNCHANGED <<rafVars, ctorVars, mapVars, dbVars, fetchVars>>

\* Calling a value: a function runs, anything else is a TypeError.
CallReturned(ret) == IF ret = "function" THEN "none" ELSE "TypeError"

\* The caller calls the value returned by the on() call that added listener i
\* of channel object c (the documented `stop()`).
Unsubscribe(c, i) ==
    /\ unsubs' = unsubs \cup {[chan |-> c, idx |-> i, at |-> Now]}
    /\ last' = [NoCall EXCEPT !.op = "unsubscribe", !.chan = c,
                              !.raised = CallReturned(OnReturn)]
    /\ ops' = ops + 1
    /\ UNCHANGED <<teardown, chans, listeners, tasks, log, pubs, closeCalls>>
    /\ UNCHANGED <<rafVars, ctorVars, mapVars, dbVars, fetchVars>>

Next ==
    \/ \E c \in ChanIds, type \in Topics, handler \in Handlers :
          ops < MaxOps /\ On(c, type, handler)
    \/ \E c \in ChanIds, type \in Types, payload \in Payloads, origin \in Origins :
          ops < MaxOps /\ Publish(c, type, payload, origin)
    \/ \E c \in ChanIds :
          ops < MaxOps /\ Close(c)
    \/ \E c \in ChanIds : \E i \in 1..Len(listeners[c]) :
          ops < MaxOps /\ Unsubscribe(c, i)
    \/ Deliver

Spec == Init /\ [][Next]_vars

\* ------------------------------------------------------------ three objects

\* A page (or several same-origin frames) holding three channel objects of one
\* name.
InitTrio ==
    \E bc \in BOOLEAN :
        /\ teardown \in (IF bc THEN TeardownModes ELSE {"ok"})
        /\ hostBC = (IF bc THEN "ok" ELSE "absent")
        /\ InitChannelWith(Constructed(<<"bus-a", "bus-a", "bus-a">>, bc))
        /\ InitRaf
        /\ InitNoAdapter
        /\ InitNoDuck

\* The calls of Next with one handler, one cloneable payload and the default
\* origin: three objects leave room for nothing more.
NextTrio ==
    \/ \E c \in ChanIds, type \in Topics :
          ops < MaxOps /\ On(c, type, "h1")
    \/ \E c \in ChanIds, type \in Types :
          ops < MaxOps /\ Publish(c, type, "p1", DefaultOrigin)
    \/ \E c \in ChanIds :
          ops < MaxOps /\ Close(c)
    \/ Deliver

SpecTrio == InitTrio /\ [][NextTrio]_vars

\* ------------------------------------------------------------ construction

\* A page that starts with no channel object and calls fusedChannel itself.
InitCreate ==
    /\ teardown = "ok"
    /\ hostBC \in HostModes
    /\ InitChannelWith(<< >>)
    /\ InitRaf
    /\ InitNoAdapter
    /\ InitNoDuck

\* fusedChannel(name, o): a fresh transport per call; the call throws what the
\* BroadcastChannel constructor throws.  The function declares the single
\* parameter `name`, so o reaches nothing in the channel object.
Create(name, o) ==
    /\ IF ConstructRaises # "none"
       THEN UNCHANGED <<chans, listeners, closeCalls, opts>>
       ELSE /\ chans' = Append(chans, NewTransport(name, BCInWindow))
            /\ listeners' = Append(listeners, << >>)
            /\ closeCalls' = Append(closeCalls, 0)
            /\ opts' = Append(opts, o)
    /\ last' = [NoCall EXCEPT !.op = "fusedChannel", !.chan = Len(chans) + 1,
                              !.raised = ConstructRaises]
    /\ ops' = ops + 1
    /\ UNCHANGED <<teardown, tasks, log, pubs, unsubs, hostBC>>
    /\ UNCHANGED <<rafVars, mapVars, dbVars, fetchVars>>

NextCreate ==
    \/ \E name \in {"bus-a", "bus-b"}, o \in FactoryOpts :
          ops < MaxOps /\ Create(name, o)
    \/ \E c \in ChanIds, type \in Types, payload \in Payloads :
          ops < MaxOps /\ PublishDefault(c, type, payload)
    \/ Next

SpecCreate == InitCreate /\ [][NextCreate]_vars

\* ---------------------------------------------------------- changing host

\* window.BroadcastChannel is an ordinary writable property: a polyfill may
\* define it, or a script delete it, between two calls.
HostChange(h) ==
    /\ h # hostBC
    /\ hostBC' = h
    /\ last' = [NoCall EXCEPT !.op = "hostChange"]
    /\ ops' = ops + 1
    /\ UNCHANGED <<teardown, chans, listeners, tasks, log, pubs, closeCalls,
                   unsubs, opts>>
    /\ UNCHANGED <<rafVars, mapVars, dbVars, fetchVars>>

NextHost ==
    \/ \E h \in {"absent", "ok"} : ops < MaxOps /\ HostChange(h)
    \/ NextCreate

SpecHost == InitCreate /\ [][NextHost]_vars

\* ------------------------------------------------------- behaving handlers

\* The same calls, with subscribers that mutate what they receive or throw.
NextHandlers ==
    \/ \E c \in ChanIds, type \in Topics, handler \in BehavingHandlers :
          ops < MaxOps /\ On(c, type, handler)
    \/ \E c \in ChanIds, type \in Types, payload \in Payloads, origin \in Origins :
          ops < MaxOps /\ Publish(c, type, payload, origin)
    \/ \E c \in ChanIds :
          ops < MaxOps /\ Close(c)
    \/ Deliver

SpecHandlers == Init /\ [][NextHandlers]_vars

\* ----------------------------------------------------------- foreign posts

\* Data that is not an envelope, as a listener reads it: each field holds what
\* `data?.field` evaluates to.  null reads as undefined throughout; an object
\* without a type reads as undefined for its type.
NullData == [type |-> "undefined", payload |-> "undefined", origin |-> "undefined",
             channel |-> "undefined", ts |-> 0]
TypelessData == [type |-> "undefined", payload |-> "p1", origin |-> "undefined",
                 channel |-> "undefined", ts |-> 0]
RawData == {NullData, TypelessData}

\* Other code of the page does new BroadcastChannel(name).postMessage(data):
\* one task per BroadcastChannel object of that name, the channel objects'
\* transports included.
ForeignPost(name, data) ==
    /\ hostBC = "ok"
    /\ LET dests == SelectSeq([d \in 1..Len(chans) |-> d],
                              LAMBDA d : IsBC(d) /\ chans[d].name = name)
       IN  tasks' = tasks \o [k \in 1..Len(dests) |-> [dest |-> dests[k], msg |-> data]]
    /\ last' = [NoCall EXCEPT !.op = "postMessage", !.payload = data.payload]
    /\ ops' = ops + 1
    /\ UNCHANGED <<teardown, chans, listeners, log, pubs, closeCalls, unsubs>>
    /\ UNCHANGED <<rafVars, ctorVars, mapVars, dbVars, fetchVars>>

NextForeign ==
    \/ \E name \in {"bus-a", "bus-b"}, data \in RawData :
          ops < MaxOps /\ ForeignPost(name, data)
    \/ Next

SpecForeign == Init /\ [][NextForeign]_vars

\* ------------------------------------------------------------- rafDebounce

\* Wrapper calls made so far.
RECURSIVE CallsIn(_, _)
CallsIn(bs, f) == IF f > Len(bs) THEN 0 ELSE Len(bs[f]) + CallsIn(bs, f + 1)

TotalCalls == CallsIn(bursts, 1) + Len(burst)

\* A wrapper without the pending check: every call schedules a callback.
ScheduledEveryCall(w) == Append(rafQueue, w)

\* A trailing-edge wrapper: a call made while pending replaces the captured call.
ScheduledLatest(w) == IF ticking THEN <<w>> ELSE Append(rafQueue, w)

\* if (ticking) return; ticking = true; requestAnimationFrame(() => ...args...)
Scheduled(w) == IF ticking THEN rafQueue ELSE Append(rafQueue, w)

\* The wrapper returned by rafDebounce(fn) is called with (this, args) = w.
WrapperCall(w) ==
    /\ TotalCalls < MaxCalls
    /\ rafQueue' = Scheduled(w)
    /\ ticking' = TRUE
    /\ burst' = Append(burst, w)
    /\ UNCHANGED <<bursts, execs, fnKind>>
    /\ UNCHANGED <<chanVars, ctorVars, mapVars, dbVars, fetchVars>>

\* A callback that runs the handler without clearing the flag.
TickingStuck == ticking

\* The scheduled callback's first statement, ticking = false, once the frame's
\* callbacks have run.
TickingAfterFrame == IF rafQueue = << >> THEN ticking ELSE FALSE

\* The scheduled callback: ticking = false; fn.apply(this, args)
FrameCallback(w, f) == [call |-> w, frame |-> f]

\* The browser renders a frame: the animation-frame callbacks scheduled since
\* the previous frame run, in order.
AnimationFrame ==
    /\ Len(bursts) < MaxFrames
    /\ execs' = execs \o [k \in 1..Len(rafQueue) |->
                            FrameCallback(rafQueue[k], Len(bursts) + 1)]
    /\ ticking' = TickingAfterFrame
    /\ rafQueue' = << >>
    /\ bursts' = Append(bursts, burst)
    /\ burst' = << >>
    /\ UNCHANGED <<chanVars, ctorVars, mapVars, fnKind, dbVars, fetchVars>>

InitRafOnly ==
    /\ teardown = "ok"
    /\ hostBC = "absent"
    /\ InitChannelWith(Constructed(<<"bus-a", "bus-a">>, FALSE))
    /\ InitRaf
    /\ InitNoAdapter
    /\ InitNoDuck

NextRaf == (\E w \in WrapperCalls : WrapperCall(w)) \/ AnimationFrame

SpecRaf == InitRafOnly /\ [][NextRaf]_vars

\* The same wrapper in a page that keeps rendering: every call is made while
\* a frame is still to come, and the browser does render it.
WrapperCallInTime(w) == Len(bursts) < MaxFrames /\ WrapperCall(w)

NextRafLive == (\E w \in WrapperCalls : WrapperCallInTime(w)) \/ AnimationFrame

SpecRafLive == InitRafOnly /\ [][NextRafLive]_vars /\ WF_vars(AnimationFrame)

\* ------------------------------------------------- handlers that misbehave

\* A callback written fn.apply(this, args); ticking = false: the flag is
\* still set while the handler runs.
FlagStillSet == TRUE

\* The flag while the handler runs: the callback clears it first.
FlagWhenHandlerRuns == FALSE

\* The call the handler makes on the wrapper from inside its own execution.
ReentrantCall == [this |-> "t1", arg |-> "x"]

\* The flag once the callback is over.  A throw skips whatever follows
\* fn.apply; a re-entrant call goes through `if (ticking) return`.
TickingAfterCallback ==
    IF fnKind = "throws" THEN FlagWhenHandlerRuns
    ELSE IF fnKind = "reenters" THEN ~FlagWhenHandlerRuns
    ELSE FALSE

\* The callback the re-entrant call schedules for the next frame.
ScheduledByHandler ==
    IF fnKind = "reenters" /\ ~FlagWhenHandlerRuns THEN <<ReentrantCall>> ELSE << >>

\* The calls the handler made on the wrapper.
CallsByHandler == IF fnKind = "reenters" THEN <<ReentrantCall>> ELSE << >>

\* The browser renders a frame and runs the pending callback, if any.
HandlerFrame ==
    /\ Len(bursts) < MaxFrames
    /\ fnKind = "reenters" => TotalCalls < MaxCalls
    /\ bursts' = Append(bursts, burst)
    /\ IF rafQueue = << >>
       THEN UNCHANGED <<execs, ticking, rafQueue>> /\ burst' = << >>
       ELSE /\ execs' = Append(execs, FrameCallback(Head(rafQueue), Len(bursts) + 1))
            /\ ticking' = TickingAfterCallback
            /\ rafQueue' = ScheduledByHandler
            /\ burst' = CallsByHandler
    /\ UNCHANGED <<chanVars, ctorVars, mapVars, fnKind, dbVars, fetchVars>>

InitRafHandler ==
    /\ teardown = "ok"
    /\ hostBC = "absent"
    /\ InitChannelWith(Constructed(<<"bus-a", "bus-a">>, FALSE))
    /\ ticking = FALSE
    /\ rafQueue = << >>
    /\ burst = << >>
    /\ bursts = << >>
    /\ execs = << >>
    /\ fnKind \in FnKinds
    /\ InitNoAdapter
    /\ InitNoDuck

NextRafHandler == (\E w \in WrapperCalls : WrapperCall(w)) \/ HandlerFrame

SpecRafHandler == InitRafHandler /\ [][NextRafHandler]_vars

\* --------------------------------------------------- enableBoundsMessaging

\* handler = (...args) => ch.publish("bounds", getPayload(...args), sender):
\* getPayload reads the map's bounds when the handler runs.
Emission(view, cause) == [view |-> view, cause |-> cause, afterCleanup |-> cleaned]

MapListener(event, fn, once) == [event |-> event, fn |-> fn, once |-> once]

HasListener(event, fn) ==
    \E i \in 1..Len(mapListeners) :
        mapListeners[i].event = event /\ mapListeners[i].fn = fn

\* The move event reaching the wrapper m.on(event, rafDebounce(h)) added: its
\* argument is the event, which tells the view the map had when it fired.
MoveCall == [this |-> "map", arg |-> mapView + 1]

\* A handler that publishes what the event it was scheduled for described.
PayloadFromEvent(w) == w.arg

\* getPayload = () => map.getBounds() ...: it takes nothing from the event and
\* reads the map when the handler runs.
PayloadWhenRun(w) == mapView

\* on(source, handler) as enableMessaging calls it.
\* channel.js: (m.loaded && m.loaded()) ? h() : m.once("load", h); m.on(event, h)
\* part_002:   start = () => { h(); m.on(event, rafDebounce(h)); };
\*             (m.loaded && m.loaded()) ? start() : m.once('load', start)
\* part_001:   loaded ? (sendBounds(), map.on('move', sendBounds))
\*                    : map.once('load', () => { sendBounds(); map.on('move', sendBounds); })
OnSourceEmits(rev, loaded) ==
    IF loaded THEN <<Emission(0, "initial")>> ELSE << >>

OnSourceListeners(rev, loaded) ==
    IF rev = "channel.js"
    THEN (IF loaded THEN << >> ELSE <<MapListener("load", "handler", TRUE)>>)
         \o <<MapListener("move", "handler", FALSE)>>
    ELSE IF rev = "part_002"
    THEN (IF loaded THEN <<MapListener("move", "debounced", FALSE)>>
          ELSE <<MapListener("load", "start", TRUE)>>)
    ELSE (IF loaded THEN <<MapListener("move", "handler", FALSE)>>
          ELSE <<MapListener("load", "startPlain", TRUE)>>)

\* off(source, handler): m.off(event, h) removes the listener that is h itself.
OffSourceListeners ==
    SelectSeq(mapListeners, LAMBDA l : ~(l.event = "move" /\ l.fn = "handler"))

\* enableBoundsMessaging(map, channel, sender) has just returned its cleanup.
InitAdapter ==
    /\ teardown = "ok"
    /\ hostBC = "absent"
    /\ InitChannelWith(Constructed(<<"bus-a">>, FALSE))
    /\ InitRaf
    /\ revision \in Revisions
    /\ mapLoaded \in BOOLEAN
    /\ mapView = 0
    /\ cleaned = FALSE
    /\ emitted = OnSourceEmits(revision, mapLoaded)
    /\ mapListeners = OnSourceListeners(revision, mapLoaded)
    /\ InitNoDuck

\* The map fires "load": the once-listeners run and are removed.
MapLoad ==
    /\ ~mapLoaded
    /\ mapLoaded' = TRUE
    /\ emitted' = emitted \o
          (IF \E fn \in {"handler", "start", "startPlain"} : HasListener("load", fn)
           THEN <<Emission(mapView, "load")>> ELSE << >>)
    /\ mapListeners' =
          SelectSeq(mapListeners, LAMBDA l : l.event # "load") \o
          (IF HasListener("load", "start")
           THEN <<MapListener("move", "debounced", FALSE)>>
           ELSE IF HasListener("load", "startPlain")
           THEN <<MapListener("move", "handler", FALSE)>>
           ELSE << >>)
    /\ UNCHANGED <<mapView, cleaned, revision>>
    /\ UNCHANGED <<chanVars, ctorVars, rafVars, dbVars, fetchVars>>

\* The map's view changes and it fires "move".
MapMove ==
    /\ mapView < MaxMoves
    /\ mapView' = mapView + 1
    /\ emitted' = emitted \o
          (IF HasListener("move", "handler")
           THEN <<Emission(mapView + 1, "move")>> ELSE << >>)
    /\ IF HasListener("move", "debounced")
       THEN /\ rafQueue' = Scheduled(MoveCall)
            /\ ticking' = TRUE
            /\ burst' = Append(burst, MoveCall)
       ELSE UNCHANGED <<rafQueue, ticking, burst>>
    /\ UNCHANGED <<mapLoaded, mapListeners, cleaned, revision, bursts, execs,
                   fnKind>>
    /\ UNCHANGED <<chanVars, ctorVars, dbVars, fetchVars>>

\* The browser renders a frame: each scheduled callback runs the handler.
MapFrame ==
    /\ Len(bursts) < MaxFrames
    /\ emitted' = emitted \o [k \in 1..Len(rafQueue) |->
                                Emission(PayloadWhenRun(rafQueue[k]), "frame")]
    /\ execs' = execs \o [k \in 1..Len(rafQueue) |->
                            FrameCallback(rafQueue[k], Len(bursts) + 1)]
    /\ ticking' = TickingAfterFrame
    /\ rafQueue' = << >>
    /\ bursts' = Append(bursts, burst)
    /\ burst' = << >>
    /\ UNCHANGED <<mapLoaded, mapListeners, mapView, cleaned, revision, fnKind>>
    /\ UNCHANGED <<chanVars, ctorVars, dbVars, fetchVars>>

\* The caller calls the cleanup function enableMessaging returned:
\* () => { try { off && off(source, handler); } catch (_) {} }
Cleanup ==
    /\ revision # "part_001"
    /\ ~cleaned
    /\ cleaned' = TRUE
    /\ mapListeners' = OffSourceListeners
    /\ UNCHANGED <<mapLoaded, mapView, emitted, revision>>
    /\ UNCHANGED <<chanVars, ctorVars, rafVars, dbVars, fetchVars>>

NextAdapter == MapLoad \/ MapMove \/ MapFrame \/ Cleanup

SpecAdapter == InitAdapter /\ [][NextAdapter]_vars

\* -------------------------------------------------------------- FusedDuckDB

\* The page has loaded the module; the channel side stays idle.
InitDuck ==
    /\ teardown = "ok"
    /\ hostBC = "absent"
    /\ InitChannelWith(Constructed(<<"bus-a">>, FALSE))
    /\ InitRaf
    /\ InitNoAdapter
    /\ InitNoDuck

\* Caller p calls FusedDuckDB.ensure().  The function runs synchronously up to
\* its first await: if (__instance) return __instance; otherwise it calls
\* init(opts) and is suspended on it.
EnsureCall(p) ==
    /\ dbProcs[p] = "idle"
    /\ dbCalls' = dbCalls + 1
    /\ IF dbSlot # 0
       THEN /\ dbReturned' = Append(dbReturned,
                   [proc |-> p, inst |-> dbSlot, closing |-> dbInsts[dbSlot].closing])
            /\ UNCHANGED <<dbProcs, dbInits>>
       ELSE /\ dbProcs' = [dbProcs EXCEPT ![p] = "init"]
            /\ dbInits' = dbInits + 1
            /\ UNCHANGED dbReturned
    /\ UNCHANGED <<dbSlot, dbInsts>>
    /\ UNCHANGED <<chanVars, ctorVars, rafVars, mapVars, fetchVars>>

\* init() resolves for caller p: const inst = <new FusedDuckDB>;
\* FusedDuckDB.__instance = inst; return inst.
EnsureResume(p) ==
    /\ dbProcs[p] = "init"
    /\ dbInsts' = Append(dbInsts, [closing |-> FALSE])
    /\ dbSlot' = Len(dbInsts) + 1
    /\ dbReturned' = Append(dbReturned,
           [proc |-> p, inst |-> Len(dbInsts) + 1, closing |-> FALSE])
    /\ dbProcs' = [dbProcs EXCEPT ![p] = "idle"]
    /\ UNCHANGED <<dbInits, dbCalls>>
    /\ UNCHANGED <<chanVars, ctorVars, rafVars, mapVars, fetchVars>>

\* Caller p calls close() on instance i, the shared one or one handed out
\* earlier: the function starts this.conn.close() and is suspended on it.
CloseCall(p, i) ==
    /\ dbProcs[p] = "idle"
    /\ dbCalls' = dbCalls + 1
    /\ dbInsts' = [dbInsts EXCEPT ![i].closing = TRUE]
    /\ dbProcs' = [dbProcs EXCEPT ![p] = "closing"]
    /\ UNCHANGED <<dbSlot, dbReturned, dbInits>>
    /\ UNCHANGED <<chanVars, ctorVars, rafVars, mapVars, fetchVars>>

\* The connection and the worker of the instance p closes have shut down:
\* FusedDuckDB.__instance = null, whatever instance the slot holds.
CloseResume(p) ==
    /\ dbProcs[p] = "closing"
    /\ dbSlot' = 0
    /\ dbProcs' = [dbProcs EXCEPT ![p] = "idle"]
    /\ UNCHANGED <<dbInsts, dbReturned, dbInits, dbCalls>>
    /\ UNCHANGED <<chanVars, ctorVars, rafVars, mapVars, fetchVars>>

NextDuck ==
    \/ \E p \in Procs : dbCalls < MaxDbCalls /\ EnsureCall(p)
    \/ \E p \in Procs : EnsureResume(p)
    \/ \E p \in Procs : \E i \in 1..Len(dbInsts) :
          dbCalls < MaxDbCalls /\ CloseCall(p, i)
    \/ \E p \in Procs : CloseResume(p)

SpecDuck == InitDuck /\ [][NextDuck]_vars

\* ------------------------------------------------- FusedDuckDB.fetchBytes

\* The fetchBytes calls made so far: those that ended and those suspended.
FetchCalls == Len(fetchDone) + Cardinality({p \in Procs : fetchProcs[p].pc # "idle"})

\* The callers suspended in fetchBytes(url), between its fetch(url) and its
\* __bytesCache.set(url, bytes).
InFlight(url) ==
    {p \in Procs : fetchProcs[p].pc # "idle" /\ fetchProcs[p].url = url}

\* Caller p calls fetchBytes(url).  A URL the cache has returns its bytes at
\* once; otherwise the function issues fetch(url) and is suspended on it.
FetchCall(p, url) ==
    /\ fetchProcs[p].pc = "idle"
    /\ IF url \in bytesCache
       THEN /\ fetchDone' = Append(fetchDone,
                   [proc |-> p, url |-> url, how |-> "cached", stored |-> FALSE])
            /\ UNCHANGED <<fetchProcs, netRequests>>
       ELSE /\ netRequests' = Append(netRequests,
                   [url |-> url, proc |-> p, cached |-> url \in bytesCache,
                    inFlight |-> InFlight(url) # {}])
            /\ fetchProcs' = [fetchProcs EXCEPT ![p] = [pc |-> "fetch", url |-> url]]
            /\ UNCHANGED fetchDone
    /\ UNCHANGED bytesCache
    /\ UNCHANGED <<chanVars, ctorVars, rafVars, mapVars, dbVars>>

\* The response of p's request arrives.  A response that is not ok makes
\* fetchBytes throw; an ok one is read with r.arrayBuffer(), a second await.
FetchResponse(p, ok) ==
    /\ fetchProcs[p].pc = "fetch"
    /\ IF ok
       THEN /\ fetchProcs' = [fetchProcs EXCEPT ![p].pc = "body"]
            /\ UNCHANGED fetchDone
       ELSE /\ fetchProcs' = [fetchProcs EXCEPT ![p] = [pc |-> "idle", url |-> "-"]]
            /\ fetchDone' = Append(fetchDone,
                   [proc |-> p, url |-> fetchProcs[p].url, how |-> "failed",
                    stored |-> FALSE])
    /\ UNCHANGED <<bytesCache, netRequests>>
    /\ UNCHANGED <<chanVars, ctorVars, rafVars, mapVars, dbVars>>

\* The body of p's response has been read: __bytesCache.set(url, bytes) and
\* the bytes are returned.
FetchBody(p) ==
    /\ fetchProcs[p].pc = "body"
    /\ bytesCache' = bytesCache \cup {fetchProcs[p].url}
    /\ fetchProcs' = [fetchProcs EXCEPT ![p] = [pc |-> "idle", url |-> "-"]]
    /\ fetchDone' = Append(fetchDone,
           [proc |-> p, url |-> fetchProcs[p].url, how |-> "ok", stored |-> TRUE])
    /\ UNCHANGED netRequests
    /\ UNCHANGED <<chanVars, ctorVars, rafVars, mapVars, dbVars>>

NextFetch ==
    \/ \E p \in Procs : \E url \in Urls :
          FetchCalls < MaxFetches /\ FetchCall(p, url)
    \/ \E p \in Procs : \E ok \in BOOLEAN : FetchResponse(p, ok)
    \/ \E p \in Procs : FetchBody(p)

SpecFetch == InitDuck /\ [][NextFetch]_vars

\* ------------------------------------------------- the two variants side by side

\* Object 1 is built where BroadcastChannel exists, object 2 where it does not;
\* a BroadcastChannel never delivers to an EventTarget, so the two objects are
\* two independent runs.  Every call made on object 1 is repeated on object 2.
InitPair ==
    /\ teardown = "ok"
    /\ hostBC = "ok"
    /\ InitChannelWith(<<NewTransport("bus-a", TRUE), NewTransport("bus-a", FALSE)>>)
    /\ InitRaf
    /\ InitNoAdapter
    /\ InitNoDuck

PairLead ==
    /\ last.chan # 1
    /\ ops < 2 * MaxOps
    /\ \/ \E type \in Topics, handler \in Handlers : On(1, type, handler)
       \/ \E type \in Types, payload \in Payloads, origin \in Origins :
             Publish(1, type, payload, origin)
       \/ Close(1)

PairFollow ==
    /\ last.chan = 1
    /\ \/ last.op = "on" /\ On(2, last.type, last.handler)
       \/ last.op = "publish" /\ Publish(2, last.type, last.payload, last.origin)
       \/ last.op = "close" /\ Close(2)

NextPair == PairLead \/ PairFollow

SpecPair == InitPair /\ [][NextPair]_vars

\* ------------------------------------------------------------------ claims

\* The log entries in which listener i of channel object c was invoked with
\* the envelope of the publish stamped ts.
Invocations(c, i, ts) ==
    {k \in 1..Len(log) : log[k].chan = c /\ log[k].idx = i /\ log[k].msg.ts = ts}

\* The latest call was a publish that returned normally, and every delivery
\* task it queued has run.
PublishSettled == last.op = "publish" /\ last.raised = "none" /\ tasks = << >>

\* C1: a handler subscribed with on(type, h) before publish(type, payload,
\* origin) on the same channel object is invoked exactly once for that
\* publish, with an envelope carrying the published type, payload and origin
\* and the channel's name, in either transport variant.
C1_ExactlyOnceOnSameObject ==
    PublishSettled =>
        \A i \in 1..Len(listeners[last.chan]) :
            listeners[last.chan][i].topic = last.type =>
                /\ Cardinality(Invocations(last.chan, i, Now - 1)) = 1
                /\ \A k \in Invocations(last.chan, i, Now - 1) :
                      /\ log[k].msg.type = last.type
                      /\ log[k].msg.payload = last.payload
                      /\ log[k].msg.origin = last.origin
                      /\ log[k].msg.channel = chans[last.chan].name

\* C2: a "*" subscription receives every envelope published on its channel
\* whatever its type, and a concrete-topic subscription receives only the
\* envelopes whose type equals its topic.
C2_WildcardAndExactMatch ==
    /\ \A k \in 1..Len(log) :
          LET topic == listeners[log[k].chan][log[k].idx].topic
          IN  topic = "*" \/ log[k].msg.type = topic
    /\ PublishSettled =>
          \A i \in 1..Len(listeners[last.chan]) :
              listeners[last.chan][i].topic = "*" =>
                  Invocations(last.chan, i, Now - 1) # {}

\* C3: on() returns an unsubscribe function; once it has been called no later
\* publish invokes the handler, and calling it again raises nothing.
C3_UnsubscribeStopsDelivery ==
    /\ last.op = "on" => last.ret = "function"
    /\ last.op = "unsubscribe" => last.raised = "none"
    /\ \A k \in 1..Len(log) : \A u \in unsubs :
          (u.chan = log[k].chan /\ u.idx = log[k].idx) => log[k].msg.ts < u.at

\* C4: after close() on a channel object, no later publish on that object
\* invokes any handler, in either transport variant.
C4_NoDeliveryAfterClose ==
    \A k \in 1..Len(log) : ~pubs[log[k].msg.ts].afterClose

\* C5: publish never raises to its caller, whether the channel is open or
\* closed and whether or not the transport primitive fails.
C5_PublishNeverRaises ==
    last.op = "publish" => last.raised = "none"

ExecsIn(f) == {k \in 1..Len(execs) : execs[k].frame = f}

\* C7: M >= 1 wrapper calls between two consecutive frames cause exactly one
\* execution of the handler when the frame fires, and a call made after that
\* frame schedules exactly one more.
C7_OnceExecutionPerFrame ==
    /\ \A f \in 1..Len(bursts) :
          Cardinality(ExecsIn(f)) = (IF bursts[f] = << >> THEN 0 ELSE 1)
    /\ Len(rafQueue) = (IF burst = << >> THEN 0 ELSE 1)

\* C7 witness: a burst of two or more calls ran once, and a call made after
\* that frame ran once more in the next frame.
C7_Witness ==
    \E f \in 1..Len(bursts) :
        /\ Len(bursts[f]) >= 2
        /\ f < Len(bursts)
        /\ bursts[f + 1] # << >>
        /\ Cardinality(ExecsIn(f)) = 1
        /\ Cardinality(ExecsIn(f + 1)) = 1

\* C8: the deferred execution of a coalesced burst receives the arguments and
\* this of the first call of the burst.
C8_FirstCallOfBurst ==
    \A k \in 1..Len(execs) :
        /\ bursts[execs[k].frame] # << >>
        /\ execs[k].call = Head(bursts[execs[k].frame])

\* C8 witness: a burst whose last call differs from its first has run.
C8_Witness ==
    \E k \in 1..Len(execs) :
        LET b == bursts[execs[k].frame]
        IN  Len(b) >= 2 /\ b[Len(b)] # Head(b)

\* What a caller of channel object c observes: the handler invocations made on
\* c, in order (ts left out: the two runs read different clocks).
RECURSIVE ObservedFrom(_, _)
ObservedFrom(c, k) ==
    IF k > Len(log) THEN << >>
    ELSE IF log[k].chan = c
         THEN <<[idx |-> log[k].idx, handler |-> log[k].handler,
                 type |-> log[k].msg.type, payload |-> log[k].msg.payload,
                 origin |-> log[k].msg.origin, channel |-> log[k].msg.channel]>>
              \o ObservedFrom(c, k + 1)
         ELSE ObservedFrom(c, k + 1)

Observed(c) == ObservedFrom(c, 1)

\* C9: the same sequence of on / publish / close calls on one channel object
\* produces the same handler invocations, in the same order, on a
\* BroadcastChannel-backed object and on an EventTarget-backed one.
C9_VariantsIndistinguishable ==
    (last.chan = 2 /\ tasks = << >>) => Observed(1) = Observed(2)

\* C10: two channel objects constructed with the same name share fan-out: an
\* envelope published through one reaches the matching subscribers of the
\* other, in either transport variant.
C10_SameNameSharesFanOut ==
    (PublishSettled /\ chans[1].name = chans[2].name) =>
        \A o \in ChanIds \ {last.chan} :
            closeCalls[o] = 0 =>
                \A i \in 1..Len(listeners[o]) :
                    Matches(listeners[o][i].topic, [type |-> last.type]) =>
                        Invocations(o, i, Now - 1) # {}

\* C11: channels are isolated by name: every envelope a handler registered on
\* a channel object named n receives was published through a channel object
\* named n and carries channel = n, the name the channel itself stamped; a
\* subscriber on one name never receives an envelope published on another.
C11_IsolatedByName ==
    \A k \in 1..Len(log) :
        /\ log[k].msg.channel = chans[log[k].chan].name
        /\ chans[pubs[log[k].msg.ts].chan].name = chans[log[k].chan].name

\* A publish on one name has returned and been delivered while a wildcard
\* subscriber sits on a channel object of another name.
C11_Witness ==
    /\ PublishSettled
    /\ \E o \in ChanIds \ {last.chan} :
          /\ chans[o].name # chans[last.chan].name
          /\ chans[o].closed = FALSE
          /\ \E i \in 1..Len(listeners[o]) : listeners[o][i].topic = "*"

\* The handler invocations made for the publish stamped ts, in order.
InvokedFor(ts) == SelectSeq(log, LAMBDA e : e.msg.ts = ts)

\* C16: on the EventTarget fallback, when N subscriptions of a channel object
\* match a published envelope (concrete-topic and wildcard alike), all N
\* handlers have run when publish returns, in the order in which the
\* subscriptions were registered.
C16_SynchronousInRegistrationOrder ==
    (last.op = "publish" /\ ~IsBC(last.chan)) =>
        LET inv == InvokedFor(Now - 1)
        IN  /\ \A i \in 1..Len(listeners[last.chan]) :
                  Matches(listeners[last.chan][i].topic, [type |-> last.type]) =>
                      \E k \in 1..Len(inv) : inv[k].chan = last.chan /\ inv[k].idx = i
            /\ \A j, k \in 1..Len(inv) : j < k => inv[j].idx <= inv[k].idx

\* The registrations of (topic, handler) on channel object c.
Registrations(c, topic, handler) ==
    {i \in 1..Len(listeners[c]) :
        listeners[c][i].topic = topic /\ listeners[c][i].handler = handler}

\* C20: on(type, h) called k times with the same topic and handler yields k
\* registrations, and h is invoked k times (once per registration) for each
\* matching envelope delivered to that channel object.
C20_DuplicatesInvokedPerRegistration ==
    PublishSettled =>
        \A c \in ChanIds :
            (\E e \in 1..Len(log) : log[e].chan = c /\ log[e].msg.ts = Now - 1) =>
                \A topic \in Topics, handler \in Handlers :
                    Matches(topic, [type |-> last.type]) =>
                        Cardinality({e \in 1..Len(log) :
                                        /\ log[e].chan = c
                                        /\ log[e].msg.ts = Now - 1
                                        /\ log[e].idx \in Registrations(c, topic, handler)})
                            = Cardinality(Registrations(c, topic, handler))

\* C12: within one page at most one transport per channel name is active
\* (constructed and not closed), however many times fusedChannel(name) is
\* called.
C12_OneActiveTransportPerName ==
    \A c, d \in ChanIds :
        (c # d /\ chans[c].name = chans[d].name) =>
            (chans[c].closed \/ chans[d].closed)

\* C14: constructing a channel never surfaces an error: where BroadcastChannel
\* is absent, or present but throwing when constructed, fusedChannel returns
\* a channel backed by the EventTarget fallback.
C14_ConstructionNeverRaises ==
    last.op = "fusedChannel" =>
        /\ last.raised = "none"
        /\ last.chan \in ChanIds
        /\ hostBC # "ok" => chans[last.chan].kind = "ET"

\* The origin the documentation promises for a two-argument publish.
DocumentedOrigin(o) == IF o.origin = "undefined" THEN "udf" ELSE o.origin

\* C15: a channel built with fusedChannel(name, { origin: o }) stamps
\* origin = o on every envelope published with publish(type, payload), and
\* the envelope carries a version field; without the option the origin is
\* "udf".
C15_OriginOptionAndVersion ==
    \A k \in 1..Len(log) :
        LET p == pubs[log[k].msg.ts]
        IN  p.args = 2 =>
                /\ log[k].msg.origin = DocumentedOrigin(opts[p.chan])
                /\ "version" \in DOMAIN log[k].msg

\* C17: a raw message that arrives without a type field, or with null data,
\* posted by other code on the same broadcast name, invokes no handler of any
\* subscription, wildcard subscriptions included.
C17_MalformedInvokesNoHandler ==
    \A k \in 1..Len(log) : log[k].msg \notin RawData

\* C18: an envelope is immutable once built: a handler that modifies the
\* envelope or its payload cannot change what any other handler invoked for
\* the same publish observes.
C18_EnvelopeImmutable ==
    \A j, k \in 1..Len(log) :
        (/\ log[j].msg.ts = log[k].msg.ts
         /\ <<log[j].chan, log[j].idx>> # <<log[k].chan, log[k].idx>>) =>
            log[j].msg = log[k].msg

\* C19: when a handler throws during a dispatch, the remaining matching
\* subscribers of that dispatch are still invoked, and the exception does not
\* leave publish.
C19_ThrowingHandlerIsolated ==
    /\ [][Len(log') > Len(log) =>
            LET c == log'[Len(log')].chan
                type == log'[Len(log')].msg.type
            IN  \A i \in 1..Len(listeners[c]) :
                    Matches(listeners[c][i].topic, [type |-> type]) =>
                        \E k \in (Len(log) + 1)..Len(log') :
                            log'[k].chan = c /\ log'[k].idx = i]_vars
    /\ [](last.op = "publish" /\ ~IsBC(last.chan) => last.raised = "none")

\* A throwing handler ran, and a subscriber registered after it was invoked
\* for the same envelope.
C19_Witness ==
    \E j, k \in 1..Len(log) :
        /\ log[j].handler = "thrower"
        /\ log[k].chan = log[j].chan
        /\ log[k].msg.ts = log[j].msg.ts
        /\ log[k].idx > log[j].idx

\* C13: once the cleanup function a binding adapter returned has been called,
\* no later event of the bound source (a move event, the deferred load event,
\* an animation-frame callback already pending) causes a publish.
C13_NoPublishAfterCleanup ==
    \A k \in 1..Len(emitted) : ~emitted[k].afterCleanup

\* C21: close() on one channel object affects only that object: the transport
\* state and the registrations of every other channel object, and the
\* deliveries already under way, are unchanged by it, and envelopes published
\* afterwards through the other objects of the same name still reach their
\* matching subscribers.
C21_CloseAffectsOnlyItsObject ==
    /\ [][(last'.op = "close" /\ ops' = ops + 1) =>
            /\ \A o \in ChanIds \ {last'.chan} :
                  /\ chans'[o] = chans[o]
                  /\ listeners'[o] = listeners[o]
            /\ tasks' = tasks
            /\ log' = log]_vars
    /\ [](PublishSettled =>
            \A d \in ChanIds :
                (/\ \A o \in {last.chan, d} : closeCalls[o] = 0
                 /\ IF IsBC(d) THEN d # last.chan ELSE d = last.chan) =>
                    \A i \in 1..Len(listeners[d]) :
                        Matches(listeners[d][i].topic, [type |-> last.type]) =>
                            Invocations(d, i, Now - 1) # {})

\* One object was closed; a later publish through a second object reached a
\* subscriber of a third.
C21_Witness ==
    /\ PublishSettled
    /\ \E c \in ChanIds \ {last.chan} :
          /\ chans[c].closed
          /\ \E k \in 1..Len(log) :
                /\ log[k].chan \notin {c, last.chan}
                /\ log[k].msg.ts = Now - 1

C23_NoFrameLost ==
    /\ [][(burst' # burst /\ burst' # << >>) =>
            IF ticking THEN rafQueue' = rafQueue /\ ticking'
            ELSE Len(rafQueue') = Len(rafQueue) + 1 /\ ticking']_vars
    /\ [][(Len(bursts') > Len(bursts) /\ rafQueue # << >>) =>
            ~ticking' /\ Len(execs') = Len(execs) + 1]_vars
    /\ (ticking ~> ~ticking)
    /\ \A n \in 0..MaxCalls :
          (burst # << >> /\ Len(execs) = n) ~> (Len(execs) > n)

\* Two calls, each made with nothing pending, were each followed by an
\* execution in a frame of its own.
C23_Witness ==
    /\ Len(execs) >= 2
    /\ execs[1].frame # execs[2].frame
    /\ ~ticking

\* C27: on the EventTarget fallback the event name "message" that carries
\* wildcard deliveries does not collide with application topics: for every
\* type, the literal "message" included, one publish invokes each subscriber
\* of that type exactly once and each wildcard subscriber exactly once.
C27_NoCollisionWithMessage ==
    (last.op = "publish" /\ ~IsBC(last.chan)) =>
        \A i \in 1..Len(listeners[last.chan]) :
            Matches(listeners[last.chan][i].topic, [type |-> last.type]) =>
                Cardinality(Invocations(last.chan, i, Now - 1)) = 1

\* C28: a rafDebounce wrapper cannot be wedged by its handler: the flag is
\* cleared before the handler runs, so whether the handler returns, throws
\* or calls the wrapper again from inside its execution, the wrapper is never
\* pending without a callback scheduled, and a call made afterwards
\* schedules an execution.
C28_HandlerCannotWedge ==
    /\ [](ticking => rafQueue # << >>)
    /\ [][(burst' # burst /\ burst' # << >> /\ Len(bursts') = Len(bursts)) =>
            rafQueue' # << >>]_vars

\* The handler threw in one frame, and a call made afterwards was executed
\* in a later one.
C28_Witness ==
    /\ fnKind = "throws"
    /\ Len(execs) >= 2
    /\ execs[1].frame # execs[2].frame

\* C26: for the debounced bounds adapter, once every scheduled frame callback
\* has fired the last "bounds" envelope published carries the view the map
\* has after its last move event: the payload is read when the callback
\* runs, not when the event was received.
C26_LastEnvelopeIsFinalView ==
    (revision = "part_002" /\ rafQueue = << >> /\ emitted # << >>) =>
        emitted[Len(emitted)].view = mapView

\* A burst of moves was published by one frame callback, scheduled for an
\* earlier move than the last.
C26_Witness ==
    /\ revision = "part_002"
    /\ rafQueue = << >>
    /\ emitted # << >>
    /\ emitted[Len(emitted)].cause = "frame"
    /\ execs[Len(execs)].call.arg < mapView

\* The emissions made as the initial one: at setup or on the load event.
InitialEmissions ==
    {k \in 1..Len(emitted) : emitted[k].cause \in {"initial", "load"}}

\* C30: enableBoundsMessaging publishes the map's bounds exactly once as the
\* initial emission, at setup if the map is loaded and otherwise when load
\* fires; it publishes nothing before the map is loaded, even if move events
\* occur first, and move-triggered envelopes only follow the initial one.
C30_InitialEmissionFirst ==
    /\ Cardinality(InitialEmissions) = (IF mapLoaded THEN 1 ELSE 0)
    /\ ~mapLoaded => emitted = << >>
    /\ emitted # << >> => 1 \in InitialEmissions

\* No close() has been called on any instance.
NoCloseYet ==
    /\ \A i \in 1..Len(dbInsts) : ~dbInsts[i].closing
    /\ \A p \in Procs : dbProcs[p] # "closing"

\* C24: FusedDuckDB.ensure() yields one shared instance per page: for any
\* interleaving of ensure() calls, those started before the first
\* initialization resolved included, init() runs at most once and every
\* caller receives the same instance.
C24_EnsureSingleInstance ==
    NoCloseYet =>
        /\ dbInits <= 1
        /\ \A j, k \in 1..Len(dbReturned) : dbReturned[j].inst = dbReturned[k].inst

\* C29: ensure() never hands out an instance on which close() has been
\* invoked, for any interleaving of ensure() and close() calls, and at most
\* one instance obtained through ensure() is open at any time.
C29_EnsureNeverReturnsClosed ==
    /\ \A k \in 1..Len(dbReturned) : ~dbReturned[k].closing
    /\ Cardinality({i \in 1..Len(dbInsts) : ~dbInsts[i].closing}) <= 1

\* C25: fetchBytes(url) is memoized per URL: no network request is issued for
\* a URL whose bytes are cached, no request is issued for a URL while another
\* call for the same URL is still in flight, and a call that failed stored
\* nothing, so only URLs fetched successfully are in the cache.
C25_FetchBytesMemoized ==
    /\ \A k \in 1..Len(netRequests) :
          /\ ~netRequests[k].cached
          /\ ~netRequests[k].inFlight
    /\ \A k \in 1..Len(fetchDone) : fetchDone[k].how = "failed" => ~fetchDone[k].stored
    /\ \A url \in bytesCache :
          \E k \in 1..Len(fetchDone) : fetchDone[k].url = url /\ fetchDone[k].how = "ok"

====
